---- MODULE Spec2Model ----
(***************************************************************************)
(* Model of the UCLA SOC availability watcher (jonathantchiu/classSOC):    *)
(* the availability rules and the change detector of src/detector.py and   *)
(* the poll cycle of src/runner.py over the state file of src/state.py.    *)
(*                                                                         *)
(* Python strings that the code inspects character by character (section   *)
(* labels, raw status texts) are sequences of one-character strings.       *)
(* Strings that the code only compares or looks up whole (rule names,      *)
(* canonical status values, event types, the URL) are TLA+ strings.        *)
(* An Optional value is a sequence of length 0 (None) or 1 (the value).    *)
(***************************************************************************)
EXTENDS Integers, Sequences, FiniteSets, TLC

VARIABLES
    config,       \* the Config the process runs with (fixed for a behaviour)
    state_file,   \* .state/last.json: None (no file) or the saved snapshot
    pc,           \* position of the modelled caller
    html,         \* run_once local: what fetch_html returned (Optional)
    prev,         \* run_once/detect local: the previous snapshot (Optional)
    snapshot,     \* run_once/detect local: the current snapshot (Optional)
    curr_avail,   \* detect local: rule verdict on the current snapshot
    prev_avail,   \* detect local: rule verdict on the previous snapshot
    events,       \* list of events returned by the last detect call
    notified,     \* events handed to ConsoleNotifier.notify in the last cycle
    rets,         \* history: return values of the last two run_once calls
    lastGood,     \* history: snapshot parsed by the last successful cycle
    availLog,     \* history: the last two availability events notified
    status_text,  \* _extract_status_from_text: its argument (Optional)
    status_raw,   \* the raw status text given to _normalize (Optional)
    status_norm,  \* the Status value _normalize returned (Optional)
    attempt,      \* fetch_html: the loop variable
    responses,    \* history: what each GET of this fetch_html call met
    fetch_ret     \* fetch_html: how the call ended (Optional)

\* the variables of the poll cycle and of detect
pollVars == <<config, state_file, html, prev, snapshot, curr_avail, prev_avail,
              events, notified, rets, lastGood, availLog>>

\* the variables of the status text functions
statusVars == <<status_text, status_raw, status_norm>>

\* the variables of fetch_html
fetchVars == <<attempt, responses, fetch_ret>>

vars == <<pc, pollVars, statusVars, fetchVars>>

----------------------------------------------------------------------------
(* Bounds of the model.                                                    *)

\* number of section labels that pages and snapshots draw from
NumLabels == 2
\* longest configured watched-sections list
MaxWatched == 2
\* most section rows on a fetched page
MaxRows == 2

----------------------------------------------------------------------------
(* Optional values and dictionaries.                                       *)

None == <<>>
Some(x) == <<x>>

\* no status text function has been called
StatusIdle == status_text = None /\ status_raw = None /\ status_norm = None

\* fetch_html has not been called
FetchIdle == attempt = 0 /\ responses = <<>> /\ fetch_ret = None

\* the value of Python's None where it is compared with a status string
NoneValue == "None"

\* dict.get(k, default)
DictGet(d, k, default) == IF k \in DOMAIN d THEN d[k] ELSE default

\* the set of values of a dict
DictValues(d) == {d[k] : k \in DOMAIN d}

EmptyDict == [k \in {} |-> "OPEN"]

----------------------------------------------------------------------------
(* Character strings.                                                      *)

UpperChars == <<"A","B","C","D","E","F","G","H","I","J","K","L","M",
                "N","O","P","Q","R","S","T","U","V","W","X","Y","Z">>
LowerChars == <<"a","b","c","d","e","f","g","h","i","j","k","l","m",
                "n","o","p","q","r","s","t","u","v","w","x","y","z">>

\* the lower-case letter of each upper-case letter
LowerOf ==
    [c \in {UpperChars[i] : i \in 1..Len(UpperChars)} |->
        LowerChars[CHOOSE i \in 1..Len(UpperChars) : UpperChars[i] = c]]

\* str.lower() on one character
LowerChar(c) == IF c \in DOMAIN LowerOf THEN LowerOf[c] ELSE c

\* str.lower()
Lower(s) == [i \in 1..Len(s) |-> LowerChar(s[i])]

\* str.startswith(prefix)
StartsWith(s, prefix) ==
    /\ Len(s) >= Len(prefix)
    /\ \A i \in 1..Len(prefix) : s[i] = prefix[i]

\* section labels
LEC_1 == <<"L","e","c"," ","1">>
DIS_1A == <<"D","I","S"," ","1","A">>
LAB_1 == <<"L","a","b"," ","1">>
LEC_2 == <<"l","e","c"," ","2">>
SEM_9 == <<"S","e","m"," ","9">>

LabelPool == <<LEC_1, DIS_1A, LAB_1, LEC_2>>
Labels == {LabelPool[i] : i \in 1..NumLabels}

----------------------------------------------------------------------------
(* src/models.py                                                           *)

Status == {"OPEN", "CLOSED", "WAITLISTED", "CANCELLED", "UNKNOWN"}

EventType == {"BECAME_AVAILABLE", "BECAME_UNAVAILABLE", "STATUS_CHANGED"}

\* all section maps over the labels
SectionMaps == UNION {[D -> Status] : D \in SUBSET Labels}

\* a datetime: the calendar day, the second of the day, the microsecond and
\* the UTC offset in minutes (None for a naive datetime)
DateTime(day, second, microsecond, utcoffset) ==
    [day |-> day, second |-> second, microsecond |-> microsecond,
     utcoffset |-> utcoffset]

\* datetime.now(timezone.utc): one clock reading, since no rule, comparison
\* or branch of a poll cycle reads the timestamp
NOW == DateTime("2026-11-02", 0, 0, Some(0))

\* datetime.isoformat(): the parts of the text; the fraction is written
\* only when the microsecond is not 0, the offset only when there is one
isoformat(t) ==
    [p \in {"date", "time"}
            \cup (IF t.microsecond # 0 THEN {"fraction"} ELSE {})
            \cup (IF t.utcoffset # None THEN {"offset"} ELSE {}) |->
        IF p = "date" THEN Some(t.day)
        ELSE IF p = "time" THEN Some(t.second)
        ELSE IF p = "fraction" THEN Some(t.microsecond)
        ELSE t.utcoffset]

\* datetime.fromisoformat(): a missing fraction is 0 microseconds, a
\* missing offset a naive datetime
fromisoformat(iso) ==
    DateTime(iso["date"][1], iso["time"][1],
             IF "fraction" \in DOMAIN iso THEN iso["fraction"][1] ELSE 0,
             IF "offset" \in DOMAIN iso THEN iso["offset"] ELSE None)

\* Snapshot(timestamp, sections, raw=None, meta=None)
Snapshot(timestamp, sections, raw, meta) ==
    [timestamp |-> timestamp, sections |-> sections, raw |-> raw,
     meta |-> meta]

Event(type, p, c, diff, url) ==
    [type |-> type, prev_snapshot |-> p, curr_snapshot |-> c,
     diff |-> diff, url |-> url]

----------------------------------------------------------------------------
(* src/config.py                                                           *)

ANY_OPEN == "any_open"
LECTURE_AND_DISCUSSION == "lecture_and_discussion"
SPECIFIC_SECTIONS == "specific_sections"

Config(url, watched_sections, rule) ==
    [url |-> url, watched_sections |-> watched_sections, rule |-> rule]

\* Python truthiness of Optional[list] / str
Falsy(opt) == opt = None \/ opt[1] = <<>>

----------------------------------------------------------------------------
(* src/detector.py                                                         *)

\* Rule A with every status but CLOSED taken for open
_is_available_any_open_not_closed(sections, _config) ==
    \E k \in DOMAIN sections : sections[k] # "CLOSED"

\* Rule A: available if any section is OPEN
_is_available_any_open(sections, _config) ==
    "OPEN" \in DictValues(sections)

\* Rule B with the label prefixes compared case-sensitively
_is_available_lecture_and_discussion_cased(sections, _config) ==
    LET has_lec_open == \E k \in DOMAIN sections :
            StartsWith(k, <<"l","e","c">>) /\ sections[k] = "OPEN"
        has_disc_open == \E k \in DOMAIN sections :
            StartsWith(k, <<"d","i","s">>) /\ sections[k] = "OPEN"
    IN  has_lec_open /\ has_disc_open

\* Rule B: lecture OPEN and at least one discussion OPEN
_is_available_lecture_and_discussion(sections, _config) ==
    LET has_lec_open == \E k \in DOMAIN sections :
            StartsWith(Lower(k), <<"l","e","c">>) /\ sections[k] = "OPEN"
        has_disc_open == \E k \in DOMAIN sections :
            StartsWith(Lower(k), <<"d","i","s">>) /\ sections[k] = "OPEN"
    IN  has_lec_open /\ has_disc_open

\* Rule C with a watched label that is absent from the map passed over
_is_available_specific_sections_skip_absent(sections, cfg) ==
    IF Falsy(cfg.watched_sections)
    THEN _is_available_any_open(sections, cfg)
    ELSE \A i \in 1..Len(cfg.watched_sections[1]) :
            DictGet(sections, cfg.watched_sections[1][i], "OPEN") = "OPEN"

\* Rule C: only watched sections must be OPEN
_is_available_specific_sections(sections, cfg) ==
    IF Falsy(cfg.watched_sections)
    THEN _is_available_any_open(sections, cfg)
    ELSE \A i \in 1..Len(cfg.watched_sections[1]) :
            DictGet(sections, cfg.watched_sections[1][i], "") = "OPEN"

\* the rule lookup with the last rule of the table as the default
_get_rule_func_default_last(rule, sections, cfg) ==
    IF rule = ANY_OPEN THEN _is_available_any_open(sections, cfg)
    ELSE IF rule = LECTURE_AND_DISCUSSION
         THEN _is_available_lecture_and_discussion(sections, cfg)
    ELSE _is_available_specific_sections(sections, cfg)

\* RULE_FUNCS.get(rule, _is_available_any_open), applied
_get_rule_func(rule, sections, cfg) ==
    IF rule = ANY_OPEN THEN _is_available_any_open(sections, cfg)
    ELSE IF rule = LECTURE_AND_DISCUSSION
         THEN _is_available_lecture_and_discussion(sections, cfg)
    ELSE IF rule = SPECIFIC_SECTIONS
         THEN _is_available_specific_sections(sections, cfg)
    ELSE _is_available_any_open(sections, cfg)

\* the diff over the labels of the current snapshot only
_diff_labels_curr_only(p, c) ==
    {label \in DOMAIN c.sections :
        DictGet(p.sections, label, NoneValue)
            # DictGet(c.sections, label, NoneValue)}

\* labels that changed between snapshots; the list is built by iterating a
\* Python set, so it has no duplicates and no defined order: it is modelled
\* by the set of its elements
_diff_labels(p, c) ==
    LET all_labels == (DOMAIN p.sections) \cup (DOMAIN c.sections)
    IN  {label \in all_labels :
            DictGet(p.sections, label, NoneValue)
                # DictGet(c.sections, label, NoneValue)}

\* detect with the status-changed branch tested first
detect_status_first(p, c, cfg, url) ==
    LET ca == _get_rule_func(cfg.rule, c.sections, cfg)
    IN  IF p = None THEN <<>>
        ELSE LET pa == _get_rule_func(cfg.rule, p[1].sections, cfg)
                 diff == _diff_labels(p[1], c)
             IN  IF diff # {}
                 THEN <<Event("STATUS_CHANGED", p[1], c, diff, url)>>
                 ELSE IF ca /\ ~pa
                 THEN <<Event("BECAME_AVAILABLE", p[1], c, diff, url)>>
                 ELSE IF ~ca /\ pa
                 THEN <<Event("BECAME_UNAVAILABLE", p[1], c, diff, url)>>
                 ELSE <<>>

\* detect without the became-unavailable branch
detect_no_unavailable(p, c, cfg, url) ==
    LET ca == _get_rule_func(cfg.rule, c.sections, cfg)
    IN  IF p = None THEN <<>>
        ELSE LET pa == _get_rule_func(cfg.rule, p[1].sections, cfg)
                 diff == _diff_labels(p[1], c)
             IN  IF ca /\ ~pa
                 THEN <<Event("BECAME_AVAILABLE", p[1], c, diff, url)>>
                 ELSE IF diff # {}
                 THEN <<Event("STATUS_CHANGED", p[1], c, diff, url)>>
                 ELSE <<>>

\* detect with a missing baseline taken for an empty, unavailable one
detect_none_as_empty(p, c, cfg, url) ==
    LET ca == _get_rule_func(cfg.rule, c.sections, cfg)
        q == IF p = None THEN Snapshot(NOW, EmptyDict, None, None) ELSE p[1]
        pa == p # None /\ _get_rule_func(cfg.rule, q.sections, cfg)
        diff == _diff_labels(q, c)
    IN  IF ca /\ ~pa
        THEN <<Event("BECAME_AVAILABLE", q, c, diff, url)>>
        ELSE IF ~ca /\ pa
        THEN <<Event("BECAME_UNAVAILABLE", q, c, diff, url)>>
        ELSE IF diff # {} /\ p # None
        THEN <<Event("STATUS_CHANGED", q, c, diff, url)>>
        ELSE <<>>

\* detect reporting the level of availability instead of its change
detect_level_triggered(p, c, cfg, url) ==
    LET ca == _get_rule_func(cfg.rule, c.sections, cfg)
    IN  IF p = None THEN <<>>
        ELSE LET pa == _get_rule_func(cfg.rule, p[1].sections, cfg)
                 diff == _diff_labels(p[1], c)
             IN  IF ca
                 THEN <<Event("BECAME_AVAILABLE", p[1], c, diff, url)>>
                 ELSE IF pa
                 THEN <<Event("BECAME_UNAVAILABLE", p[1], c, diff, url)>>
                 ELSE IF diff # {}
                 THEN <<Event("STATUS_CHANGED", p[1], c, diff, url)>>
                 ELSE <<>>

\* detect(prev, curr, config, url): the list of events
detect(p, c, cfg, url) ==
    LET ca == _get_rule_func(cfg.rule, c.sections, cfg)
    IN  IF p = None THEN <<>>
        ELSE LET pa == _get_rule_func(cfg.rule, p[1].sections, cfg)
                 diff == _diff_labels(p[1], c)
             IN  IF ca /\ ~pa
                 THEN <<Event("BECAME_AVAILABLE", p[1], c, diff, url)>>
                 ELSE IF ~ca /\ pa
                 THEN <<Event("BECAME_UNAVAILABLE", p[1], c, diff, url)>>
                 ELSE IF diff # {}
                 THEN <<Event("STATUS_CHANGED", p[1], c, diff, url)>>
                 ELSE <<>>

----------------------------------------------------------------------------
(* src/parser.py                                                           *)

S_open == <<"o","p","e","n">>
S_closed == <<"c","l","o","s","e","d">>
S_full == <<"f","u","l","l">>
S_closed_by_dept == <<"c","l","o","s","e","d"," ","b","y"," ","d","e","p","t">>
S_waitlist == <<"w","a","i","t","l","i","s","t">>
S_waitlisted == <<"w","a","i","t","l","i","s","t","e","d">>
S_cancelled == <<"c","a","n","c","e","l","l","e","d">>
S_canceled == <<"c","a","n","c","e","l","e","d">>

\* the keys of STATUS_MAP
StatusMapKeys == {S_open, S_closed, S_full, S_closed_by_dept, S_waitlist,
                  S_waitlisted, S_cancelled, S_canceled}

STATUS_MAP ==
    [k \in StatusMapKeys |->
        IF k = S_open THEN "OPEN"
        ELSE IF k \in {S_closed, S_full, S_closed_by_dept} THEN "CLOSED"
        ELSE IF k \in {S_waitlist, S_waitlisted} THEN "WAITLISTED"
        ELSE "CANCELLED"]

\* the characters str.strip() removes
Whitespace == {" ", "\t", "\n", "\r"}

\* str.strip()
Strip(s) ==
    LET keep == {i \in 1..Len(s) : s[i] \notin Whitespace}
    IN  IF keep = {} THEN <<>>
        ELSE LET lo == CHOOSE i \in keep : \A j \in keep : i <= j
                 hi == CHOOSE i \in keep : \A j \in keep : i >= j
             IN  SubSeq(s, lo, hi)

\* _normalize looking the text up as it is cased
_normalize_case_sensitive(raw_text) ==
    LET key == Strip(raw_text)
    IN  DictGet(STATUS_MAP, key, "UNKNOWN")

\* _normalize looking the text up untrimmed
_normalize_untrimmed(raw_text) ==
    LET key == Lower(raw_text)
    IN  DictGet(STATUS_MAP, key, "UNKNOWN")

\* map raw status text to the normalized Status value
_normalize(raw_text) ==
    LET key == Lower(Strip(raw_text))
    IN  DictGet(STATUS_MAP, key, "UNKNOWN")

\* dict[k] = v
DictSet(d, k, v) ==
    [x \in (DOMAIN d) \cup {k} |-> IF x = k THEN v ELSE d[x]]

\* the text of a page is given by whether BeautifulSoup accepts it and by
\* the sequence of its candidate rows, each row by the (label, raw_status)
\* pair that _extract_ucla_row, then _extract_legacy_row, deliver for it
Html(rows) == [parseable |-> TRUE, rows |-> rows]

\* a text on which BeautifulSoup raises
Unparseable == [parseable |-> FALSE, rows |-> <<>>]

Row(label, raw_status) == [label |-> label, raw_status |-> raw_status]

\* a row that neither extractor recognises
NoRow == Row(None, None)

\* the loop of parse recording the raw text of every labelled row
RECURSIVE ParseRows_raw_unchecked(_, _)
ParseRows_raw_unchecked(rows, n) ==
    IF n = 0 THEN <<EmptyDict, EmptyDict>>
    ELSE LET acc == ParseRows_raw_unchecked(rows, n - 1)
             row == rows[n]
         IN  IF ~Falsy(row.label) /\ ~Falsy(row.raw_status)
             THEN <<DictSet(acc[1], row.label[1], _normalize(row.raw_status[1])),
                    DictSet(acc[2], row.label[1], row.raw_status[1])>>
             ELSE IF ~Falsy(row.label)
             THEN <<acc[1], DictSet(acc[2], row.label[1], row.raw_status[1])>>
             ELSE acc

\* the loop of parse over rows 1..n: <<sections, raw>>
RECURSIVE ParseRows(_, _)
ParseRows(rows, n) ==
    IF n = 0 THEN <<EmptyDict, EmptyDict>>
    ELSE LET acc == ParseRows(rows, n - 1)
             row == rows[n]
         IN  IF ~Falsy(row.label) /\ ~Falsy(row.raw_status)
             THEN <<DictSet(acc[1], row.label[1], _normalize(row.raw_status[1])),
                    DictSet(acc[2], row.label[1], row.raw_status[1])>>
             ELSE acc

\* parse reporting a page without section rows as a parse failure
parse_no_rows_is_failure(text) ==
    LET acc == ParseRows(text.rows, Len(text.rows))
    IN  IF ~text.parseable \/ acc[1] = EmptyDict THEN None
        ELSE Some(Snapshot(NOW, acc[1], Some(acc[2]), None))

\* parse returning an empty Snapshot for a text BeautifulSoup rejects
parse_failure_as_empty(text) ==
    LET acc == ParseRows(text.rows, Len(text.rows))
    IN  Some(Snapshot(NOW, acc[1],
                      IF acc[2] # EmptyDict THEN Some(acc[2]) ELSE None,
                      None))

\* parse(html): None on parse failure, else the Snapshot
parse(text) ==
    IF ~text.parseable THEN None
    ELSE LET acc == ParseRows(text.rows, Len(text.rows))
         IN  Some(Snapshot(NOW, acc[1],
                           IF acc[2] # EmptyDict THEN Some(acc[2]) ELSE None,
                           None))

----------------------------------------------------------------------------
(* src/models.py, src/state.py: persistence                                *)

\* to_dict testing raw and meta for truth instead of for None
to_dict_if_truthy(s) ==
    [k \in {"timestamp", "sections"}
            \cup (IF ~Falsy(s.raw) THEN {"raw"} ELSE {})
            \cup (IF ~Falsy(s.meta) THEN {"meta"} ELSE {}) |->
        IF k = "timestamp" THEN isoformat(s.timestamp)
        ELSE IF k = "sections" THEN s.sections
        ELSE IF k = "raw" THEN s.raw[1]
        ELSE s.meta[1]]

\* Snapshot.to_dict(): "raw" and "meta" are keys only when the field is
\* not None
to_dict(s) ==
    [k \in {"timestamp", "sections"}
            \cup (IF s.raw # None THEN {"raw"} ELSE {})
            \cup (IF s.meta # None THEN {"meta"} ELSE {}) |->
        IF k = "timestamp" THEN isoformat(s.timestamp)
        ELSE IF k = "sections" THEN s.sections
        ELSE IF k = "raw" THEN s.raw[1]
        ELSE s.meta[1]]

\* Snapshot.from_dict(d): d.get gives None for a missing key
from_dict(d) ==
    Snapshot(fromisoformat(d["timestamp"]), d["sections"],
             IF "raw" \in DOMAIN d THEN Some(d["raw"]) ELSE None,
             IF "meta" \in DOMAIN d THEN Some(d["meta"]) ELSE None)

\* the state file holds the JSON text of a dict of strings and of dicts
\* from strings to strings, which json.load gives back as json.dump got it

\* load_last_snapshot(): None when there is no state file
load_last_snapshot(file) ==
    IF file = None THEN None ELSE Some(from_dict(file[1]))

\* save_snapshot(snapshot): the new content of the state file
save_snapshot(s) == Some(to_dict(s))

----------------------------------------------------------------------------
(* Inputs.                                                                 *)

URL == "https://sa.ucla.edu/ro/public/soc"

RuleNames == {ANY_OPEN, LECTURE_AND_DISCUSSION, SPECIFIC_SECTIONS, "all_open"}

\* watched labels: the page's labels and one label no page carries
WatchPool == [i \in 1..(NumLabels + 1) |->
                 IF i <= NumLabels THEN LabelPool[i] ELSE SEM_9]

\* None, the empty list and the lists of distinct watched labels (the rule
\* reads the list through all(), so one order of each is enough)
WatchedLists ==
    {None} \cup
    {Some([i \in 1..Len(ix) |-> WatchPool[ix[i]]]) :
        ix \in {jx \in UNION {[1..n -> 1..Len(WatchPool)] : n \in 0..MaxWatched} :
                    \A i \in 1..(Len(jx) - 1) : jx[i] < jx[i + 1]}}

\* every watch list under the rule that reads it; without and with a watch
\* list under the rules that take no notice of it
Configs ==
    {Config(URL, w, SPECIFIC_SECTIONS) : w \in WatchedLists} \cup
    {Config(URL, w, r) : w \in {None, Some(<<LEC_1, SEM_9>>)},
                         r \in RuleNames \ {SPECIFIC_SECTIONS}}

\* snapshots built as the detector's test builds them (no raw)
DirectSnapshots == {Snapshot(NOW, s, None, None) : s \in SectionMaps}

\* raw status texts the row extractors deliver
R_Open == <<"O","p","e","n">>
R_Full == <<"F","u","l","l">>
R_Waitlisted == <<"W","a","i","t","l","i","s","t","e","d">>
R_Canceled == <<"C","a","n","c","e","l","e","d">>
R_UNKNOWN == <<"U","N","K","N","O","W","N">>

PageStatuses == {R_Open, R_Full, R_Waitlisted, R_Canceled, R_UNKNOWN}

\* a row neither extractor recognises, a legacy row whose status cell is
\* empty, and the rows with a label and a status text
Rows == {NoRow} \cup {Row(Some(l), Some(<<>>)) : l \in Labels}
               \cup {Row(Some(l), Some(r)) : l \in Labels, r \in PageStatuses}

Pages == {Html(rows) : rows \in UNION {[1..n -> Rows] : n \in 0..MaxRows}}

\* run_once reads the fetched text through parse only: one text for each
\* result parse has on the pages
PollPages == {CHOOSE h \in Pages : parse(h) = r : r \in {parse(h) : h \in Pages}}

\* parse on every text a poll cycle is given
ParseTable == [h \in PollPages \cup {Unparseable} |-> parse(h)]

\* what fetch_html returns: None, or the text of a page
FetchResults == {None} \cup {Some(h) : h \in PollPages \cup {Unparseable}}

\* the configurations a process is started with: each rule without a watch
\* list, the watched-sections rule with one, and a configuration without URL
RunConfigs ==
    {Config(URL, None, r) : r \in RuleNames \ {"all_open"}}
        \cup {Config(URL, Some(<<LEC_1, DIS_1A>>), SPECIFIC_SECTIONS),
              Config("", None, ANY_OPEN)}

----------------------------------------------------------------------------
(* src/runner.py                                                           *)

\* the last two elements of a history
Last2(h) == IF Len(h) <= 2 THEN h ELSE SubSeq(h, Len(h) - 1, Len(h))

\* the availability events among the events notified, in order
RECURSIVE AvailTypes(_, _)
AvailTypes(evs, n) ==
    IF n = 0 THEN <<>>
    ELSE IF evs[n].type \in {"BECAME_AVAILABLE", "BECAME_UNAVAILABLE"}
         THEN Append(AvailTypes(evs, n - 1), evs[n].type)
         ELSE AvailTypes(evs, n - 1)

\* a cycle that returns False before anything is loaded or notified
RunFailed ==
    /\ prev' = None
    /\ snapshot' = None
    /\ curr_avail' = FALSE
    /\ prev_avail' = FALSE
    /\ events' = <<>>
    /\ notified' = <<>>
    /\ rets' = Last2(Append(rets, FALSE))
    /\ UNCHANGED <<state_file, lastGood, availLog>>

\* run_once(config, url) with fetch_html returning fetched
run_once(fetched) ==
    /\ pc = "poll"
    /\ UNCHANGED <<config, pc, statusVars, fetchVars>>
    /\ html' = IF config.url = "" THEN None ELSE fetched
    /\ LET target_url == config.url
       IN  IF target_url = "" THEN RunFailed
           ELSE IF fetched = None THEN RunFailed
           ELSE IF ParseTable[fetched[1]] = None THEN RunFailed
           ELSE LET snap == ParseTable[fetched[1]][1]
                    p == load_last_snapshot(state_file)
                    evs == detect(p, snap, config, Some(target_url))
                IN  /\ snapshot' = Some(snap)
                    /\ prev' = p
                    /\ curr_avail' = _get_rule_func(config.rule, snap.sections, config)
                    /\ prev_avail' = IF p = None THEN FALSE
                                     ELSE _get_rule_func(config.rule, p[1].sections, config)
                    /\ events' = evs
                    /\ notified' = evs
                    /\ availLog' = Last2(availLog \o AvailTypes(evs, Len(evs)))
                    /\ state_file' = save_snapshot(snap)
                    /\ lastGood' = Some(snap)
                    /\ rets' = Last2(Append(rets, TRUE))

----------------------------------------------------------------------------
(* Spec: the poll loop, run_once called again and again.                   *)

Init ==
    /\ config \in RunConfigs
    /\ state_file = None
    /\ pc = "poll"
    /\ html = None
    /\ prev = None
    /\ snapshot = None
    /\ curr_avail = FALSE
    /\ prev_avail = FALSE
    /\ events = <<>>
    /\ notified = <<>>
    /\ rets = <<>>
    /\ lastGood = None
    /\ availLog = <<>>
    /\ StatusIdle
    /\ FetchIdle

Next == \E fetched \in FetchResults : run_once(fetched)

Spec == Init /\ [][Next]_vars

----------------------------------------------------------------------------
(* SpecDetect: detect as a pure function of (prev, curr, config).          *)

InitDetect ==
    /\ config \in Configs
    /\ prev \in {None} \cup {Some(s) : s \in DirectSnapshots}
    /\ snapshot \in {Some(s) : s \in DirectSnapshots}
    /\ pc = "detect_call"
    /\ html = None
    /\ state_file = None
    /\ curr_avail = FALSE
    /\ prev_avail = FALSE
    /\ events = <<>>
    /\ notified = <<>>
    /\ rets = <<>>
    /\ lastGood = None
    /\ availLog = <<>>
    /\ StatusIdle
    /\ FetchIdle

DetectCall ==
    /\ pc = "detect_call"
    /\ curr_avail' = _get_rule_func(config.rule, snapshot[1].sections, config)
    /\ prev_avail' = IF prev = None THEN FALSE
                     ELSE _get_rule_func(config.rule, prev[1].sections, config)
    /\ events' = detect(prev, snapshot[1], config, None)
    /\ pc' = "detect_done"
    /\ UNCHANGED <<config, state_file, html, prev, snapshot, notified, rets,
                   lastGood, availLog, statusVars, fetchVars>>

NextDetect == DetectCall

SpecDetect == InitDetect /\ [][NextDetect]_vars

----------------------------------------------------------------------------
(* Properties of detect and of the availability rules, under SpecDetect.   *)

\* the previous and the current section map of a finished detect call
DetectDone == pc = "detect_done"
HasBaseline == prev # None
P == prev[1].sections
C == snapshot[1].sections

\* the labels whose status differs between the two maps, a label present in
\* only one of them counting as differing
Differing ==
    {l \in Labels \cup {SEM_9} :
        \/ (l \in DOMAIN P) # (l \in DOMAIN C)
        \/ l \in DOMAIN P /\ l \in DOMAIN C /\ P[l] # C[l]}

\* a map holds an OPEN section
HasOpen(m) == \E l \in DOMAIN m : m[l] = "OPEN"

\* C1: when the rule is false on the previous sections and true on the
\* current ones, detect returns exactly one event, of type BECAME_AVAILABLE,
\* and its diff holds every label whose status differs.
C1_BecameAvailable ==
    (DetectDone /\ HasBaseline /\ ~prev_avail /\ curr_avail)
        => /\ Len(events) = 1
           /\ events[1].type = "BECAME_AVAILABLE"
           /\ Differing \subseteq events[1].diff

\* a flip to available in which one label closed and another appeared
C1_Witness ==
    /\ DetectDone /\ HasBaseline /\ ~prev_avail /\ curr_avail
    /\ Len(events) = 1
    /\ events[1].type = "BECAME_AVAILABLE"
    /\ Cardinality(events[1].diff) = 2
    /\ \E l \in DOMAIN C : l \notin DOMAIN P

\* C2: when the rule is true on the previous sections and false on the
\* current ones, detect returns exactly one event, of type
\* BECAME_UNAVAILABLE, and its diff holds every label whose status differs.
C2_BecameUnavailable ==
    (DetectDone /\ HasBaseline /\ prev_avail /\ ~curr_avail)
        => /\ Len(events) = 1
           /\ events[1].type = "BECAME_UNAVAILABLE"
           /\ Differing \subseteq events[1].diff

\* a flip to unavailable in which the open label vanished from the page
C2_Witness ==
    /\ DetectDone /\ HasBaseline /\ prev_avail /\ ~curr_avail
    /\ Len(events) = 1
    /\ events[1].type = "BECAME_UNAVAILABLE"
    /\ \E l \in DOMAIN P : P[l] = "OPEN" /\ l \notin DOMAIN C

\* C3: when the rule gives the same verdict on both section maps, detect
\* returns exactly one STATUS_CHANGED event whose diff is the set of
\* differing labels if the maps differ, and no event if they are identical.
C3_StatusChanged ==
    (DetectDone /\ HasBaseline /\ prev_avail = curr_avail)
        => IF P # C
           THEN /\ Len(events) = 1
                /\ events[1].type = "STATUS_CHANGED"
                /\ events[1].diff = Differing
           ELSE events = <<>>

\* an unchanged verdict with one label gone and another changed
C3_Witness ==
    /\ DetectDone /\ HasBaseline /\ prev_avail = curr_avail
    /\ Len(events) = 1
    /\ events[1].type = "STATUS_CHANGED"
    /\ \E l \in DOMAIN P : l \notin DOMAIN C
    /\ \E l \in DOMAIN P : l \in DOMAIN C /\ P[l] # C[l]

\* C4: with no previous snapshot detect returns no event, for every current
\* snapshot, rule name and watch list.
C4_NoBaseline ==
    (DetectDone /\ prev = None) => events = <<>>

\* a first observation that is already available
C4_Witness ==
    /\ DetectDone /\ prev = None
    /\ curr_avail
    /\ config.rule = SPECIFIC_SECTIONS /\ ~Falsy(config.watched_sections)

\* C7: under any_open the verdict is true exactly when some label maps to
\* OPEN; every other status counts as not open and the empty map is false.
C7_AnyOpen ==
    (DetectDone /\ config.rule = ANY_OPEN)
        => /\ curr_avail = HasOpen(C)
           /\ HasBaseline => (prev_avail = HasOpen(P))
           /\ DOMAIN C = {} => ~curr_avail

\* a map without OPEN that holds UNKNOWN and WAITLISTED is not available
C7_Witness ==
    /\ DetectDone /\ config.rule = ANY_OPEN
    /\ ~curr_avail
    /\ \E l \in DOMAIN C : C[l] = "UNKNOWN"
    /\ \E l \in DOMAIN C : C[l] = "WAITLISTED"

\* the labels whose lower-cased text starts with "lec", and with "dis"
LecLabels == {LEC_1, LEC_2}
DisLabels == {DIS_1A}

\* a map holds an OPEN lecture and an OPEN discussion
LecAndDisOpen(m) ==
    /\ \E l \in DOMAIN m : l \in LecLabels /\ m[l] = "OPEN"
    /\ \E l \in DOMAIN m : l \in DisLabels /\ m[l] = "OPEN"

\* C8: under lecture_and_discussion the verdict is true exactly when a label
\* starting (lower-cased) with "lec" and a label starting with "dis" both
\* map to OPEN; without a lecture or without a discussion label it is false.
C8_LectureAndDiscussion ==
    (DetectDone /\ config.rule = LECTURE_AND_DISCUSSION)
        => /\ curr_avail = LecAndDisOpen(C)
           /\ HasBaseline => (prev_avail = LecAndDisOpen(P))
           /\ (DOMAIN C \cap LecLabels = {} \/ DOMAIN C \cap DisLabels = {})
                => ~curr_avail

\* lecture and discussion open now, the lecture alone open before
C8_Witness ==
    /\ DetectDone /\ config.rule = LECTURE_AND_DISCUSSION /\ HasBaseline
    /\ curr_avail /\ ~prev_avail
    /\ HasOpen(P)

\* the watched labels of the configuration
Watched == {config.watched_sections[1][i] :
                i \in 1..Len(config.watched_sections[1])}

\* the verdict specific_sections is to give on a map
SpecificVerdict(m) ==
    IF config.watched_sections = None \/ config.watched_sections = Some(<<>>)
    THEN HasOpen(m)
    ELSE \A w \in Watched : w \in DOMAIN m /\ m[w] = "OPEN"

\* C9: under specific_sections, without a watch list (None or empty) the
\* verdict is the any_open verdict; otherwise it is true exactly when every
\* watched label maps to OPEN, a watched label absent from the map making
\* it false.
C9_SpecificSections ==
    (DetectDone /\ config.rule = SPECIFIC_SECTIONS)
        => /\ curr_avail = SpecificVerdict(C)
           /\ HasBaseline => (prev_avail = SpecificVerdict(P))

\* every watched label on the page is open, one watched label is not on it
C9_Witness ==
    /\ DetectDone /\ config.rule = SPECIFIC_SECTIONS
    /\ ~Falsy(config.watched_sections)
    /\ \E w \in Watched : w \notin DOMAIN C
    /\ \E w \in Watched : w \in DOMAIN C
    /\ \A w \in Watched : w \in DOMAIN C => C[w] = "OPEN"
    /\ ~curr_avail

\* C10: a rule name that is none of the three gives the verdicts and the
\* events that any_open gives on the same snapshots.
C10_UnknownRule ==
    (DetectDone /\ config.rule \notin {ANY_OPEN, LECTURE_AND_DISCUSSION,
                                      SPECIFIC_SECTIONS})
        => /\ curr_avail = HasOpen(C)
           /\ HasBaseline => (prev_avail = HasOpen(P))
           /\ events = detect(prev, snapshot[1],
                              [config EXCEPT !.rule = ANY_OPEN], None)

\* an unknown rule name with a watch list that any_open does not read
C10_Witness ==
    /\ DetectDone /\ HasBaseline
    /\ config.rule = "all_open"
    /\ config.watched_sections # None
    /\ Len(events) = 1
    /\ events[1].type = "BECAME_AVAILABLE"

----------------------------------------------------------------------------
(* Properties of the poll loop, under Spec.                                *)

\* C5: in the stream of notified events two BECAME_AVAILABLE never occur
\* without a BECAME_UNAVAILABLE between them, nor two BECAME_UNAVAILABLE
\* without a BECAME_AVAILABLE between them.
C5_NoDuplicateTransition ==
    Len(availLog) = 2 => availLog[1] # availLog[2]

\* a second availability event notified by the cycle after a failed one
C5_Witness ==
    /\ Len(availLog) = 2
    /\ rets = <<FALSE, TRUE>>
    /\ Len(notified) = 1
    /\ notified[1].type = "BECAME_UNAVAILABLE"

\* the cycle just run was given no URL, no text or an unparseable text
CycleFailed ==
    \/ config.url = ""
    \/ html = None
    \/ ~html[1].parseable

\* C6: a cycle with no URL, with fetch_html returning None or with parse
\* returning None returns False, notifies no event and leaves the state
\* file as it was; a successful cycle is compared against the snapshot of
\* the last successful cycle.
C6_FailedCyclePreservesBaseline ==
    [][/\ CycleFailed' => /\ rets'[Len(rets')] = FALSE
                          /\ notified' = <<>>
                          /\ events' = <<>>
                          /\ state_file' = state_file
       /\ ~CycleFailed' => /\ rets'[Len(rets')] = TRUE
                           /\ prev' = lastGood]_vars

\* a successful cycle after a parse failure, compared against a baseline
C6_Witness ==
    /\ rets = <<FALSE, TRUE>>
    /\ prev # None
    /\ Len(notified) = 1

----------------------------------------------------------------------------
(* SpecNormalize: _normalize as a pure function of the raw status text.    *)

\* most blanks put before and after a word
MaxPad == 1

\* the upper-case letter of each lower-case letter
UpperOf ==
    [c \in {LowerChars[i] : i \in 1..Len(LowerChars)} |->
        UpperChars[CHOOSE i \in 1..Len(LowerChars) : LowerChars[i] = c]]

\* str.upper()
Upper(s) == [i \in 1..Len(s) |-> IF s[i] \in DOMAIN UpperOf THEN UpperOf[s[i]] ELSE s[i]]

\* str.capitalize() of a lower-case word
Capitalize(s) == [i \in 1..Len(s) |-> IF i = 1 THEN Upper(s)[1] ELSE s[i]]

\* words that are no key of STATUS_MAP
S_empty == <<>>
S_unknown == <<"u","n","k","n","o","w","n">>
S_opened == <<"o","p","e","n","e","d">>
S_close == <<"c","l","o","s","e">>
S_closed_by == <<"c","l","o","s","e","d"," ","b","y">>
S_wait_list == <<"w","a","i","t"," ","l","i","s","t">>
S_tba == <<"t","b","a">>

OtherWords == {S_empty, S_unknown, S_opened, S_close, S_closed_by,
               S_wait_list, S_tba}

Words == StatusMapKeys \cup OtherWords

Casings == {"lower", "upper", "capitalized"}

\* n blanks
RECURSIVE Blanks(_)
Blanks(n) == IF n = 0 THEN <<>> ELSE <<" ">> \o Blanks(n - 1)

\* a word in a casing, between blanks and a trailing tab
Cased(w, casing) ==
    IF casing = "upper" THEN Upper(w)
    ELSE IF casing = "capitalized" THEN Capitalize(w)
    ELSE w

Padded(w, casing, left, right) ==
    Blanks(left) \o Cased(w, casing) \o Blanks(right)
        \o (IF right = MaxPad THEN <<"\t">> ELSE <<>>)

NormalizeInputs ==
    {Padded(w, c, l, r) : w \in Words, c \in Casings, l \in 0..MaxPad, r \in 0..MaxPad}

InitNormalize ==
    /\ pc = "normalize_call"
    /\ status_text = None
    /\ status_raw \in {Some(t) : t \in NormalizeInputs}
    /\ status_norm = None
    /\ config = Config(URL, None, ANY_OPEN)
    /\ state_file = None
    /\ html = None
    /\ prev = None
    /\ snapshot = None
    /\ curr_avail = FALSE
    /\ prev_avail = FALSE
    /\ events = <<>>
    /\ notified = <<>>
    /\ rets = <<>>
    /\ lastGood = None
    /\ availLog = <<>>
    /\ FetchIdle

\* sections[label] = _normalize(raw_status).value
NormalizeCall ==
    /\ pc = "normalize_call"
    /\ status_norm' = Some(_normalize(status_raw[1]))
    /\ pc' = "normalize_done"
    /\ UNCHANGED <<pollVars, status_text, status_raw, fetchVars>>

NextNormalize == NormalizeCall

SpecNormalize == InitNormalize /\ [][NextNormalize]_vars

NormalizeDone == pc = "normalize_done"

\* the canonical tokens, as texts
T_OPEN == <<"O","P","E","N">>
T_CLOSED == <<"C","L","O","S","E","D">>
T_WAITLISTED == <<"W","A","I","T","L","I","S","T","E","D">>
T_CANCELLED == <<"C","A","N","C","E","L","L","E","D">>
T_UNKNOWN == <<"U","N","K","N","O","W","N">>

\* the Status value each canonical token names
TokenStatus ==
    [t \in {T_OPEN, T_CLOSED, T_WAITLISTED, T_CANCELLED, T_UNKNOWN} |->
        IF t = T_OPEN THEN "OPEN"
        ELSE IF t = T_CLOSED THEN "CLOSED"
        ELSE IF t = T_WAITLISTED THEN "WAITLISTED"
        ELSE IF t = T_CANCELLED THEN "CANCELLED"
        ELSE "UNKNOWN"]

\* C11 as stated: normalizing a canonical token OPEN, CLOSED, WAITLISTED or
\* CANCELLED yields UNKNOWN.
C11_CanonicalYieldsUnknown ==
    (NormalizeDone /\ status_raw[1] \in {T_OPEN, T_CLOSED, T_WAITLISTED, T_CANCELLED})
        => status_norm = Some("UNKNOWN")

\* C11 as amended: _normalize lower-cases before the lookup, so each of the
\* canonical tokens OPEN, CLOSED, WAITLISTED, CANCELLED maps to itself;
\* only the token UNKNOWN yields UNKNOWN.
C11_CanonicalMapsToItself ==
    (NormalizeDone /\ status_raw[1] \in DOMAIN TokenStatus)
        => status_norm = Some(TokenStatus[status_raw[1]])

\* the token OPEN was normalized, to OPEN
C11_Witness ==
    /\ NormalizeDone
    /\ status_raw = Some(T_OPEN)
    /\ status_norm = Some("OPEN")

\* the Status value the phrase table gives each word
ExpectedStatus(w) ==
    IF w = S_open THEN "OPEN"
    ELSE IF w \in {S_closed, S_full, S_closed_by_dept} THEN "CLOSED"
    ELSE IF w \in {S_waitlist, S_waitlisted} THEN "WAITLISTED"
    ELSE IF w \in {S_cancelled, S_canceled} THEN "CANCELLED"
    ELSE "UNKNOWN"

\* C12: _normalize always returns a Status value: after trimming and
\* lower-casing, OPEN for open, CLOSED for closed, full and closed by dept,
\* WAITLISTED for waitlist and waitlisted, CANCELLED for cancelled and
\* canceled, and UNKNOWN for every other text, the empty one included.
C12_NormalizeTable ==
    NormalizeDone
        => /\ status_norm # None
           /\ status_norm[1] \in Status
           /\ \A w \in Words, c \in Casings, l \in 0..MaxPad, r \in 0..MaxPad :
                status_raw[1] = Padded(w, c, l, r)
                    => status_norm[1] = ExpectedStatus(w)

\* a padded, capitalized "Closed by Dept" was normalized
C12_Witness ==
    /\ NormalizeDone
    /\ status_raw = Some(Padded(S_closed_by_dept, "capitalized", MaxPad, MaxPad))
    /\ status_norm = Some("CLOSED")

----------------------------------------------------------------------------
(* SpecSnapshot: a Snapshot saved with to_dict and loaded with from_dict.  *)

Timestamps ==
    {DateTime("2026-11-02", sec, us, off) :
        sec \in {0, 86399}, us \in {0, 123456},
        off \in {None, Some(0), Some(-480)}}

\* raw texts by label, as parse or a caller may set them
RawDicts ==
    {None, Some(EmptyDict), Some([l \in {LEC_1} |-> R_Open]),
     Some([l \in {LEC_1, DIS_1A} |-> IF l = LEC_1 THEN R_Full ELSE R_UNKNOWN])}

MetaDicts ==
    {None, Some(EmptyDict), Some([term |-> "26W", classid |-> "187093200"])}

SectionDicts ==
    {EmptyDict, [l \in {LEC_1} |-> "OPEN"],
     [l \in {LEC_1, DIS_1A} |-> IF l = LEC_1 THEN "CLOSED" ELSE "UNKNOWN"]}

StoredSnapshots ==
    {Snapshot(t, sec, raw, meta) :
        t \in Timestamps, sec \in SectionDicts, raw \in RawDicts,
        meta \in MetaDicts}

InitSnapshot ==
    /\ pc = "save"
    /\ snapshot \in {Some(x) : x \in StoredSnapshots}
    /\ state_file = None
    /\ prev = None
    /\ config = Config(URL, None, ANY_OPEN)
    /\ html = None
    /\ curr_avail = FALSE
    /\ prev_avail = FALSE
    /\ events = <<>>
    /\ notified = <<>>
    /\ rets = <<>>
    /\ lastGood = None
    /\ availLog = <<>>
    /\ StatusIdle
    /\ FetchIdle

\* save_snapshot(snapshot)
SaveSnapshot ==
    /\ pc = "save"
    /\ state_file' = save_snapshot(snapshot[1])
    /\ pc' = "load"
    /\ UNCHANGED <<config, html, prev, snapshot, curr_avail, prev_avail,
                   events, notified, rets, lastGood, availLog, statusVars,
                   fetchVars>>

\* prev = load_last_snapshot()
LoadSnapshot ==
    /\ pc = "load"
    /\ prev' = load_last_snapshot(state_file)
    /\ pc' = "loaded"
    /\ UNCHANGED <<config, html, state_file, snapshot, curr_avail, prev_avail,
                   events, notified, rets, lastGood, availLog, statusVars,
                   fetchVars>>

NextSnapshot == SaveSnapshot \/ LoadSnapshot

SpecSnapshot == InitSnapshot /\ [][NextSnapshot]_vars

\* C13: from_dict(to_dict(s)) has the sections, timestamp, raw and meta of
\* s, and "raw" and "meta" are keys of to_dict(s) exactly when the field is
\* not None.
C13_RoundTrip ==
    /\ pc \in {"load", "loaded"}
        => /\ ("raw" \in DOMAIN state_file[1]) = (snapshot[1].raw # None)
           /\ ("meta" \in DOMAIN state_file[1]) = (snapshot[1].meta # None)
    /\ pc = "loaded"
        => /\ prev # None
           /\ prev[1].sections = snapshot[1].sections
           /\ prev[1].timestamp = snapshot[1].timestamp
           /\ prev[1].raw = snapshot[1].raw
           /\ prev[1].meta = snapshot[1].meta

\* a snapshot with an empty raw dict, no meta, whole seconds and no offset
\* went through the state file
C13_Witness ==
    /\ pc = "loaded"
    /\ snapshot[1].raw = Some(EmptyDict)
    /\ snapshot[1].meta = None
    /\ snapshot[1].timestamp.microsecond = 0
    /\ snapshot[1].timestamp.utcoffset = None
    /\ "raw" \in DOMAIN state_file[1]
    /\ "meta" \notin DOMAIN state_file[1]
    /\ prev = snapshot

----------------------------------------------------------------------------
(* SpecParse: parse as a pure function of the page.                        *)

InitParse ==
    /\ pc = "parse_call"
    /\ html \in {Some(h) : h \in Pages \cup {Unparseable}}
    /\ snapshot = None
    /\ state_file = None
    /\ prev = None
    /\ config = Config(URL, None, ANY_OPEN)
    /\ curr_avail = FALSE
    /\ prev_avail = FALSE
    /\ events = <<>>
    /\ notified = <<>>
    /\ rets = <<>>
    /\ lastGood = None
    /\ availLog = <<>>
    /\ StatusIdle
    /\ FetchIdle

\* snapshot = parse(html)
ParseCall ==
    /\ pc = "parse_call"
    /\ snapshot' = parse(html[1])
    /\ pc' = "parse_done"
    /\ UNCHANGED <<config, html, state_file, prev, curr_avail, prev_avail,
                   events, notified, rets, lastGood, availLog, statusVars,
                   fetchVars>>

NextParse == ParseCall

SpecParse == InitParse /\ [][NextParse]_vars

\* row i of the page carries a label and a status text
Kept(i) ==
    /\ html[1].rows[i].label # None
    /\ html[1].rows[i].label[1] # <<>>
    /\ html[1].rows[i].raw_status # None
    /\ html[1].rows[i].raw_status[1] # <<>>

\* row i is the last row kept for its label
LastKept(i) ==
    /\ Kept(i)
    /\ \A j \in (i + 1)..Len(html[1].rows) :
        Kept(j) => html[1].rows[j].label # html[1].rows[i].label

\* C14: a Snapshot returned by parse has raw None exactly when sections is
\* empty, and otherwise raw has the keys of sections; discarded rows add
\* no key and of the rows repeating a label the last one gives both the
\* sections entry and the raw entry.
C14_RawKeysMatchSections ==
    (pc = "parse_done" /\ snapshot # None)
        => LET sec == snapshot[1].sections
               raw == snapshot[1].raw
           IN  /\ (raw = None) = (DOMAIN sec = {})
               /\ raw # None => DOMAIN raw[1] = DOMAIN sec
               /\ DOMAIN sec = {html[1].rows[i].label[1] :
                                    i \in {k \in 1..Len(html[1].rows) : Kept(k)}}
               /\ \A i \in 1..Len(html[1].rows) :
                    LastKept(i) =>
                        raw[1][html[1].rows[i].label[1]]
                            = html[1].rows[i].raw_status[1]

\* a page whose second row repeats the label of the first with another text
C14_Witness ==
    /\ pc = "parse_done" /\ snapshot # None
    /\ Len(html[1].rows) = 2
    /\ Kept(1) /\ Kept(2)
    /\ html[1].rows[1].label = html[1].rows[2].label
    /\ html[1].rows[1].raw_status # html[1].rows[2].raw_status
    /\ snapshot[1].raw # None

----------------------------------------------------------------------------
(* The poll loop on a page without section rows, under Spec.               *)

\* the cycle just run fetched a parseable page none of whose rows is kept
ZeroRows ==
    /\ config.url # ""
    /\ html # None
    /\ html[1].parseable
    /\ \A i \in 1..Len(html[1].rows) : ~Kept(i)

\* C16: a page without section rows is no parse failure: parse returns a
\* Snapshot with empty sections, on which no rule is available; the cycle
\* succeeds, notifies BECAME_UNAVAILABLE when the persisted baseline was
\* available, and saves the empty snapshot as the new baseline.
C16_EmptyPageOverwritesBaseline ==
    ZeroRows
        => /\ rets[Len(rets)] = TRUE
           /\ snapshot # None
           /\ DOMAIN snapshot[1].sections = {}
           /\ ~curr_avail
           /\ (prev # None /\ prev_avail)
                => /\ Len(notified) = 1
                   /\ notified[1].type = "BECAME_UNAVAILABLE"
           /\ state_file # None
           /\ DOMAIN state_file[1]["sections"] = {}

\* an empty page fetched while the saved baseline was available
C16_Witness ==
    /\ ZeroRows
    /\ prev # None /\ prev_avail
    /\ config.rule = LECTURE_AND_DISCUSSION
    /\ Len(notified) = 1
    /\ notified[1].type = "BECAME_UNAVAILABLE"
    /\ DOMAIN state_file[1]["sections"] = {}

----------------------------------------------------------------------------
(* SpecExtract: the status text of a row, resolved and normalized.         *)

S_capacity == <<"c","a","p","a","c","i","t","y">>

STATUS_PHRASES ==
    <<S_closed_by_dept, S_waitlisted, S_waitlist, S_cancelled, S_canceled,
      S_open, S_closed, S_full>>

\* sub in s
Contains(s, sub) ==
    \E i \in 1..(Len(s) - Len(sub) + 1) : SubSeq(s, i, i + Len(sub) - 1) = sub

\* s.find(sub) when sub is in s, counted from 1
Find(s, sub) ==
    CHOOSE i \in 1..(Len(s) - Len(sub) + 1) :
        /\ SubSeq(s, i, i + Len(sub) - 1) = sub
        /\ \A j \in 1..(i - 1) : SubSeq(s, j, j + Len(sub) - 1) # sub

\* the least element of a non-empty set of numbers
Min(S) == CHOOSE x \in S : \A y \in S : x <= y

\* the position of the first ")" after p, or 0
Closing(text, p) ==
    LET qs == {k \in (p + 1)..Len(text) : text[k] = ")"}
    IN  IF qs = {} THEN 0 ELSE Min(qs)

\* the positions where \([^)]*capacity[^)]*\) matches under re.I
CapacityParens(text) ==
    {p \in 1..Len(text) :
        /\ text[p] = "("
        /\ Closing(text, p) # 0
        /\ Contains(Lower(SubSeq(text, p + 1, Closing(text, p) - 1)),
                    S_capacity)}

\* re.sub(r"\s*\([^)]*capacity[^)]*\).*", "", text, flags=re.I): every match
\* starts at the white space before the parenthesis and ends where "."
\* stops matching, at the next line feed or at the end of the text
RECURSIVE SubCapacity(_)
SubCapacity(text) ==
    IF CapacityParens(text) = {} THEN text
    ELSE LET p == Min(CapacityParens(text))
             s == Min({k \in 1..p : \A j \in k..(p - 1) : text[j] \in Whitespace})
             nl == {k \in (Closing(text, p) + 1)..Len(text) : text[k] = "\n"}
             e == IF nl = {} THEN Len(text) + 1 ELSE Min(nl)
         IN  SubSeq(text, 1, s - 1) \o SubCapacity(SubSeq(text, e, Len(text)))

_extract_status_from_text(text) ==
    LET stripped == Strip(SubCapacity(text))
        text_lower == Lower(stripped)
        found == {k \in 1..Len(STATUS_PHRASES) :
                    Contains(text_lower, STATUS_PHRASES[k])}
    IN  IF found = {} THEN R_UNKNOWN
        ELSE LET phrase == STATUS_PHRASES[Min(found)]
                 idx == Find(text_lower, phrase)
             IN  SubSeq(stripped, idx, idx + Len(phrase) - 1)

\* what the status column says before the capacity detail
HeadTexts ==
    {<<>>,
     <<"O","p","e","n">>,
     <<"O","P","E","N">>,
     <<"C","l","o","s","e","d"," ","b","y"," ","D","e","p","t">>,
     <<"c","l","o","s","e","d"," ","b","y"," ","d","e","p","t"," ","M","a","t","h">>,
     <<"W","a","i","t","l","i","s","t","e","d">>,
     <<"W","a","i","t","l","i","s","t"," ","F","u","l","l">>,
     <<"C","l","o","s","e","d",":"," ","C","l","a","s","s"," ","F","u","l","l">>,
     <<"C","a","n","c","e","l","l","e","d">>,
     <<"C","a","n","c","e","l","e","d">>,
     <<"T","e","n","t","a","t","i","v","e">>,
     <<"C","l","o","s","e","d"," ","O","p","e","n">>,
     <<"F","u","l","l">>}

\* the capacity detail: none, in parentheses, unclosed, or other parentheses
ParenTexts ==
    {<<>>,
     <<" ","(","5"," ","c","a","p","a","c","i","t","y",")">>,
     <<"(","0"," ","C","a","p","a","c","i","t","y"," ","l","e","f","t",")">>,
     <<" ","(","x",")">>,
     <<" ","(","c","a","p","a","c","i","t","y">>,
     <<"(","w","a","i","t","l","i","s","t","e","d",","," ","c","a","p","a","c","i","t","y",")">>}

\* what follows the capacity detail, on the same line or on the next
TailTexts ==
    {<<>>,
     <<" ","O","p","e","n">>,
     <<"\n","W","a","i","t","l","i","s","t","e","d">>,
     <<" ","\n">>,
     <<" ","(","F","u","l","l"," ","c","a","p","a","c","i","t","y",")">>}

\* "Closed by Dept Computer Science (0 capacity remaining)"
Scenario4 ==
    <<"C","l","o","s","e","d"," ","b","y"," ","D","e","p","t"," ","C","o","m","p","u","t","e","r"," ","S","c","i","e","n","c","e"," ","(","0"," ","c","a","p","a","c","i","t","y"," ","r","e","m","a","i","n","i","n","g",")">>

ExtractInputs ==
    {Scenario4} \cup {h \o p \o t : h \in HeadTexts, p \in ParenTexts,
                                    t \in TailTexts}

InitExtract ==
    /\ pc = "extract_call"
    /\ status_text \in {Some(t) : t \in ExtractInputs}
    /\ status_raw = None
    /\ status_norm = None
    /\ config = Config(URL, None, ANY_OPEN)
    /\ state_file = None
    /\ html = None
    /\ prev = None
    /\ snapshot = None
    /\ curr_avail = FALSE
    /\ prev_avail = FALSE
    /\ events = <<>>
    /\ notified = <<>>
    /\ rets = <<>>
    /\ lastGood = None
    /\ availLog = <<>>
    /\ FetchIdle

\* raw_status = _extract_status_from_text(text)
ExtractCall ==
    /\ pc = "extract_call"
    /\ status_raw' = Some(_extract_status_from_text(status_text[1]))
    /\ pc' = "normalize_call"
    /\ UNCHANGED <<pollVars, status_text, status_norm, fetchVars>>

NextExtract == ExtractCall \/ NormalizeCall

SpecExtract == InitExtract /\ [][NextExtract]_vars

\* the text up to the first parenthetical containing "capacity"
BeforeCapacity(text) ==
    IF CapacityParens(text) = {} THEN text
    ELSE SubSeq(text, 1, Min(CapacityParens(text)) - 1)

\* C15: the resolved status is the first phrase of STATUS_PHRASES occurring,
\* in any casing, in the text before the first parenthetical containing
\* "capacity", in the casing it has there, or "UNKNOWN" when none occurs;
\* a phrase is never passed over for a shorter phrase contained in it; and
\* scenario 4 resolves to "Closed by Dept" and normalizes to CLOSED.
C15_FirstPhraseBeforeCapacity ==
    status_raw # None /\ status_text # None
        => LET kept == BeforeCapacity(status_text[1])
               found == {k \in 1..Len(STATUS_PHRASES) :
                            Contains(Lower(kept), STATUS_PHRASES[k])}
               result == status_raw[1]
           IN  /\ found = {} => result = R_UNKNOWN
               /\ found # {} =>
                    /\ Lower(result) = STATUS_PHRASES[Min(found)]
                    /\ Contains(kept, result)
                    /\ \A a \in found, b \in 1..Len(STATUS_PHRASES) :
                        (a # b /\ Contains(STATUS_PHRASES[a], STATUS_PHRASES[b]))
                            => Lower(result) # STATUS_PHRASES[b]
               /\ status_text[1] = Scenario4 =>
                    /\ result = <<"C","l","o","s","e","d"," ","b","y"," ",
                                  "D","e","p","t">>
                    /\ status_norm # None => status_norm[1] = "CLOSED"

----------------------------------------------------------------------------
(* SpecFetch: fetch_html, one GET request per step.                        *)

MAX_RETRIES == 3
RETRY_BACKOFF == 2

DigitOf ==
    [c \in {"0","1","2","3","4","5","6","7","8","9"} |->
        IF c = "0" THEN 0 ELSE IF c = "1" THEN 1 ELSE IF c = "2" THEN 2
        ELSE IF c = "3" THEN 3 ELSE IF c = "4" THEN 4 ELSE IF c = "5" THEN 5
        ELSE IF c = "6" THEN 6 ELSE IF c = "7" THEN 7 ELSE IF c = "8" THEN 8
        ELSE 9]

\* the number a string of digits writes
RECURSIVE DigitsValue(_)
DigitsValue(ds) ==
    IF ds = <<>> THEN 0
    ELSE 10 * DigitsValue(SubSeq(ds, 1, Len(ds) - 1)) + DigitOf[ds[Len(ds)]]

\* int(s) of a str: Some(n), or None where int raises ValueError
int(s) ==
    LET t == Strip(s)
        signed == t # <<>> /\ t[1] \in {"+", "-"}
        ds == IF signed THEN Tail(t) ELSE t
    IN  IF ds = <<>> \/ \E i \in 1..Len(ds) : ds[i] \notin DOMAIN DigitOf
        THEN None
        ELSE Some(IF signed /\ t[1] = "-" THEN 0 - DigitsValue(ds)
                  ELSE DigitsValue(ds))

\* what session.get gives: a response with its status code and Retry-After
\* header, or a requests.RequestException
Response(status_code, retry_after) ==
    [raises |-> FALSE, status_code |-> status_code, retry_after |-> retry_after]
RequestException == [raises |-> TRUE, status_code |-> 0, retry_after |-> None]

\* "Wed, 21 Oct 2015 07:28:00 GMT"
HTTP_DATE ==
    <<"W","e","d",","," ","2","1"," ","O","c","t"," ","2","0","1","5"," ","0","7",":","2","8",":","0","0"," ","G","M","T">>

\* Retry-After as seconds and as the HTTP-date of RFC 9110
RetryAfterHeaders ==
    {None, Some(<<"5">>), Some(<<"0">>), Some(<<" ","1","2">>),
     Some(<<"-","1">>), Some(<<"1",".","5">>),
     Some(HTTP_DATE)}

StatusCodes == {200, 404, 500, 503}

Responses ==
    {RequestException} \cup {Response(c, None) : c \in StatusCodes}
                       \cup {Response(429, h) : h \in RetryAfterHeaders}

\* how a call of fetch_html ends
Returned(value) == Some([raised |-> FALSE, value |-> value])
Raised(exception) == Some([raised |-> TRUE, value |-> Some(exception)])

RESP_TEXT == "<html>"

InitFetch ==
    /\ pc = "fetch_get"
    /\ attempt = 0
    /\ responses = <<>>
    /\ fetch_ret = None
    /\ config = Config(URL, None, ANY_OPEN)
    /\ state_file = None
    /\ html = None
    /\ prev = None
    /\ snapshot = None
    /\ curr_avail = FALSE
    /\ prev_avail = FALSE
    /\ events = <<>>
    /\ notified = <<>>
    /\ rets = <<>>
    /\ lastGood = None
    /\ availLog = <<>>
    /\ StatusIdle

\* the loop goes to its next attempt, or ends and fetch_html returns None
Continue ==
    IF attempt + 1 < MAX_RETRIES
    THEN attempt' = attempt + 1 /\ pc' = "fetch_get" /\ fetch_ret' = None
    ELSE attempt' = attempt /\ pc' = "fetch_done" /\ fetch_ret' = Returned(None)

\* the except clause: another attempt, or None after the last one
Except ==
    IF attempt < MAX_RETRIES - 1
    THEN attempt' = attempt + 1 /\ pc' = "fetch_get" /\ fetch_ret' = None
    ELSE attempt' = attempt /\ pc' = "fetch_done" /\ fetch_ret' = Returned(None)

\* an exception the except clause does not catch leaves fetch_html
Propagate(exception) ==
    attempt' = attempt /\ pc' = "fetch_done" /\ fetch_ret' = Raised(exception)

\* time.sleep(secs) raises ValueError for a negative length
SleepRaises(secs) == secs < 0

\* one pass of the body of the loop of fetch_html
Attempt(resp) ==
    /\ pc = "fetch_get"
    /\ attempt < MAX_RETRIES
    /\ responses' = Append(responses, resp)
    /\ IF resp.raises THEN Except
       ELSE IF resp.status_code = 429
       THEN LET retry_after == IF resp.retry_after = None
                               THEN Some(RETRY_BACKOFF)
                               ELSE int(resp.retry_after[1])
            IN  IF retry_after = None \/ SleepRaises(retry_after[1])
                THEN Propagate("ValueError")
                ELSE Continue
       ELSE IF resp.status_code >= 500 THEN Continue
       ELSE IF resp.status_code >= 400 THEN Except
       ELSE /\ attempt' = attempt
            /\ pc' = "fetch_done"
            /\ fetch_ret' = Returned(Some(RESP_TEXT))
    /\ UNCHANGED <<pollVars, statusVars>>

NextFetch == \E resp \in Responses : Attempt(resp)

SpecFetch == InitFetch /\ [][NextFetch]_vars

\* the attempt that got resp ended in a 429, a 5xx status or a request
\* exception (raise_for_status raises one for a 4xx status)
Retried(resp) ==
    resp.raises \/ resp.status_code = 429 \/ resp.status_code >= 400

\* C17: fetch_html makes at most MAX_RETRIES GET requests and then has
\* returned: the response text at the first attempt that is not retried,
\* None when all MAX_RETRIES attempts were retried; every earlier response,
\* a 429 included, used up one attempt.
C17_ReturnsWithinMaxRetries ==
    /\ Len(responses) <= MAX_RETRIES
    /\ pc = "fetch_get" =>
        /\ Len(responses) = attempt
        /\ attempt < MAX_RETRIES
        /\ \A i \in 1..Len(responses) : Retried(responses[i])
    /\ pc = "fetch_done" =>
        /\ fetch_ret # None
        /\ ~fetch_ret[1].raised
        /\ \A i \in 1..(Len(responses) - 1) : Retried(responses[i])
        /\ IF Retried(responses[Len(responses)])
           THEN Len(responses) = MAX_RETRIES /\ fetch_ret[1].value = None
           ELSE fetch_ret[1].value = Some(RESP_TEXT)

====
